---- MODULE Spec2Model ----
(***************************************************************************)
(* Model of homeassistant/components/schedule/__init__.py: the validation  *)
(* of one day's time ranges (valid_schedule) and the Schedule entity that  *)
(* evaluates a week of validated day schedules at a wall-clock instant     *)
(* (Schedule._update) and re-evaluates itself from a one-shot timer.       *)
(*                                                                         *)
(* Time.  A wall-clock instant is a natural number of ticks; a day has     *)
(* TicksPerDay ticks.  Configured times of day (datetime.time values with  *)
(* second resolution) sit on the even ticks of a day, dt_util.now() can    *)
(* fall on any tick (it has a finer resolution than a configured time), so *)
(* between two configured times there is always an instant that is neither.*)
(* All datetimes of _update carry now.tzinfo, so Python orders them by     *)
(* their wall-clock fields: the order of the tick numbers.                 *)
(***************************************************************************)
EXTENDS Integers, Sequences, FiniteSets, Bags, TLC

VARIABLES
    schedule,       \* valid_schedule: the argument of the call
    result,         \* valid_schedule: what the call returned or raised
    calls,          \* valid_schedule: number of calls made on this value
    now,            \* dt_util.now(): the wall clock, in ticks
    nticks,         \* ticks the clock has advanced since construction
    lifecycle,      \* "init" after __init__, "added" after async_added_to_hass,
                    \* "removed" after the on-remove hook has run
    nupdates,       \* calls of async_update_config made so far
    last_edit,      \* the latest call's config: whether it passed its schema
                    \* and the messages of the vol.Invalid it raised
    _config,        \* Schedule._config: weekday -> validated day schedule
    _attr_state,    \* Schedule._attr_state
    next_event,     \* _attr_extra_state_attributes[ATTR_NEXT_EVENT]
    _unsub_update,  \* Schedule._unsub_update: the timer it cancels, or None
    timers,         \* bag of the instants of the pending timers set by
                    \* async_track_point_in_utc_time
    upd_now         \* the local `now` of the latest _update, or None

vvars == <<schedule, result, calls>>
evars == <<now, nticks, lifecycle, nupdates, last_edit, _config, _attr_state,
           next_event, _unsub_update, timers, upd_now>>
vars == <<schedule, result, calls, now, nticks, lifecycle, nupdates, last_edit,
          _config, _attr_state, next_event, _unsub_update, timers, upd_now>>

(***************************************************************************)
(* Bounds of the model and constants of the program.                       *)
(***************************************************************************)
MaxTime == 3        \* configured times of day available: 0 .. MaxTime-1
MaxLen == 3         \* longest argument given to valid_schedule
MaxRanges == 2      \* most time ranges in the week of a constructed entity
MaxTicks == 6       \* most ticks the clock advances after construction
MaxDay == 3         \* a constructed entity has its ranges on weekdays 0 .. MaxDay
MaxUpdates == 1     \* most calls of async_update_config

DaysPerWeek == 7    \* "% 7" of _update
LookaheadDays == 8  \* "range(8)" of _update
None == -1          \* Python's None where an instant is expected

NoEdit == [ok |-> TRUE, errors |-> {}]

STATE_ON == "on"
STATE_OFF == "off"

TicksPerDay == 2 * MaxTime
Times == {2 * k : k \in 0 .. MaxTime - 1}
Days == 0 .. DaysPerWeek - 1
TimeRange == [from : Times, to : Times]

(***************************************************************************)
(* valid_schedule                                                          *)
(***************************************************************************)

\* The position sorted() gives a new element: behind every element whose
\* key is not greater (sorted() is stable).
RECURSIVE insert_by_from(_, _)
insert_by_from(time_range, s) ==
    IF s = <<>> THEN <<time_range>>
    ELSE IF s[Len(s)].from <= time_range.from THEN Append(s, time_range)
    ELSE Append(insert_by_from(time_range, SubSeq(s, 1, Len(s) - 1)), s[Len(s)])

RECURSIVE stable_sort(_)
stable_sort(s) ==
    IF s = <<>> THEN <<>>
    ELSE insert_by_from(s[Len(s)], stable_sort(SubSeq(s, 1, Len(s) - 1)))

Reverse(s) == [i \in 1 .. Len(s) |-> s[Len(s) + 1 - i]]

unsorted(s) == s

\* sorted(schedule, key=lambda time_range: time_range[CONF_FROM])
sorted_by_from(s) == stable_sort(s)

from_not_before_to_strict(time_range) == time_range.from > time_range.to

\* time_range[CONF_FROM] >= time_range[CONF_TO]
from_not_before_to(time_range) == time_range.from >= time_range.to

previous_overlaps_or_touches(previous_to, time_range) ==
    previous_to # None /\ previous_to >= time_range.from

previous_overlaps_to(previous_to, time_range) ==
    previous_to # None /\ previous_to > time_range.to

\* previous_to is not None and previous_to > time_range[CONF_FROM]
previous_overlaps(previous_to, time_range) ==
    previous_to # None /\ previous_to > time_range.from

Returned(value) == [ok |-> TRUE, value |-> value, error |-> "none"]
Raised(error) == [ok |-> FALSE, value |-> <<>>, error |-> error]

\* The for loop of valid_schedule from its i-th iteration on.
RECURSIVE scan(_, _, _)
scan(s, i, previous_to) ==
    IF i > Len(s) THEN Returned(s)
    ELSE IF from_not_before_to(s[i]) THEN Raised("Invalid time range")
    ELSE IF previous_overlaps(previous_to, s[i]) THEN Raised("Overlapping times")
    ELSE scan(s, i + 1, s[i].to)

valid_schedule(s) ==
    IF s = <<>> THEN Returned(s)
    ELSE scan(sorted_by_from(s), 1, None)

(***************************************************************************)
(* The schema of a week: every day's list goes through valid_schedule.     *)
(***************************************************************************)
SCHEDULE_SCHEMA(config) ==
    [day \in Days |-> valid_schedule(config[day])]

STORAGE_SCHEMA(config) ==
    LET days == SCHEDULE_SCHEMA(config)
    IN  IF \A day \in Days : days[day].ok
        THEN [ok |-> TRUE, value |-> [day \in Days |-> days[day].value]]
        ELSE [ok |-> FALSE, value |-> [day \in Days |-> <<>>]]

(***************************************************************************)
(* Schedule._update                                                        *)
(***************************************************************************)
date_of(instant) == instant \div TicksPerDay         \* now.date()
time_of(instant) == instant % TicksPerDay            \* now.time()
weekday(instant) == date_of(instant) % DaysPerWeek   \* now.weekday()

\* datetime.combine(date, time, tzinfo=now.tzinfo)
combine(date, time) == date * TicksPerDay + time

in_range_before_to(time_range, time) ==
    time_range.from <= time /\ time < time_range.to

\* time_range[CONF_FROM] <= now.time() <= time_range[CONF_TO]
in_range(time_range, time) ==
    time_range.from <= time /\ time <= time_range.to

\* next((STATE_ON for time_range in todays_schedule if ...), STATE_OFF)
current_state(config, instant) ==
    LET todays_schedule == config[weekday(instant)]
    IN  IF \E i \in 1 .. Len(todays_schedule) :
               in_range(todays_schedule[i], time_of(instant))
        THEN STATE_ON
        ELSE STATE_OFF

\* itertools.chain(*[[from, to] for time_range in day_schedule])
RECURSIVE chain(_)
chain(day_schedule) ==
    IF day_schedule = <<>> THEN <<>>
    ELSE <<day_schedule[1].from, day_schedule[1].to>> \o chain(Tail(day_schedule))

RECURSIVE insert_time(_, _)
insert_time(t, s) ==
    IF s = <<>> THEN <<t>>
    ELSE IF s[Len(s)] <= t THEN Append(s, t)
    ELSE Append(insert_time(t, SubSeq(s, 1, Len(s) - 1)), s[Len(s)])

\* sorted(...) of the times of a day
RECURSIVE sorted_times(_)
sorted_times(s) ==
    IF s = <<>> THEN <<>>
    ELSE insert_time(s[Len(s)], sorted_times(SubSeq(s, 1, Len(s) - 1)))

is_after_or_at(possible_next_event, instant) == possible_next_event >= instant

\* possible_next_event > now
is_after(possible_next_event, instant) == possible_next_event > instant

\* next((possible_next_event for time in times if ... > now), None)
RECURSIVE first_after(_, _, _, _)
first_after(times, i, instant, day) ==
    IF i > Len(times) THEN None
    ELSE LET possible_next_event ==
                 combine(date_of(instant), times[i]) + day * TicksPerDay
         IN  IF is_after(possible_next_event, instant)
             THEN possible_next_event
             ELSE first_after(times, i + 1, instant, day)

weekday_after_shifted(instant, day) == (weekday(instant) + day + 1) % DaysPerWeek

\* (now.weekday() + day) % 7
weekday_after(instant, day) == (weekday(instant) + day) % DaysPerWeek

SearchOneWeek == DaysPerWeek

\* the days the loop "for day in range(8)" visits
SearchDays == LookaheadDays

\* The loop over the days from its iteration `day` on.
RECURSIVE search_from(_, _, _)
search_from(config, instant, day) ==
    IF day >= SearchDays THEN None
    ELSE LET day_schedule == config[weekday_after(instant, day)]
             times == sorted_times(chain(day_schedule))
             found == first_after(times, 1, instant, day)
         IN  IF found # None THEN found
             ELSE search_from(config, instant, day + 1)

find_next_event_skipping_today(config, instant) == search_from(config, instant, 1)

find_next_event(config, instant) == search_from(config, instant, 0)

track_nothing(pending, point_in_time) == pending

\* async_track_point_in_utc_time(hass, action, point_in_time): one more
\* pending timer.
track_point_in_time(pending, point_in_time) ==
    pending (+) SetToBag({point_in_time})

\* The callable async_track_point_in_utc_time returned: it takes its timer
\* out of the pending ones, and does nothing once the timer has fired.
unsub(pending, point_in_time) == pending (-) SetToBag({point_in_time})

\* _update on the given config, with the timers that are pending and the
\* value of _unsub_update when it starts.
update_on(config, pending, unsub_update) ==
    /\ upd_now' = now
    /\ _attr_state' = current_state(config, now)
    /\ next_event' = find_next_event(config, now)
    /\ IF next_event' # None
       THEN /\ _unsub_update' = next_event'
            /\ timers' = track_point_in_time(pending, next_event')
       ELSE /\ _unsub_update' = unsub_update
            /\ timers' = pending

\* _update, called with the timers that are pending when it starts.
Update(pending) == update_on(_config, pending, _unsub_update)

clean_up_listener_keeps_timer(pending, unsub_update) ==
    [timers |-> pending, unsub_update |-> None]

clean_up_listener_keeps_handle(pending, unsub_update) ==
    IF unsub_update # None
    THEN [timers |-> pending (-) SetToBag({unsub_update}),
          unsub_update |-> unsub_update]
    ELSE [timers |-> pending, unsub_update |-> unsub_update]

\* _clean_up_listener: the pending timers and _unsub_update it leaves.
clean_up_listener(pending, unsub_update) ==
    IF unsub_update # None
    THEN [timers |-> unsub(pending, unsub_update), unsub_update |-> None]
    ELSE [timers |-> pending, unsub_update |-> unsub_update]

(***************************************************************************)
(* Inputs                                                                  *)
(***************************************************************************)
\* The arguments valid_schedule is checked on: any list of time ranges.
Schedules == UNION {[1 .. n -> TimeRange] : n \in 0 .. MaxLen}

\* A configured week is written as a list of (day, from, to) entries; the
\* list of a day holds the day's entries in the order they were written.
\* The weekday of now is any of the seven, so weekdays 0 .. MaxDay with a
\* range put a range at every distance before and after now.
Entry ==
    {e \in [day : 0 .. MaxDay, from : Times, to : Times] : e.from < e.to}
EntryLists == UNION {[1 .. n -> Entry] : n \in 0 .. MaxRanges}

day_list(entries, day) ==
    LET OfDay(e) == e.day = day
        sel == SelectSeq(entries, OfDay)
    IN  [i \in 1 .. Len(sel) |-> [from |-> sel[i].from, to |-> sel[i].to]]

week_of(entries) == [day \in Days |-> day_list(entries, day)]

EmptyWeek == [day \in Days |-> <<>>]

(***************************************************************************)
(* The validation of one day's list, applied as a function.                *)
(***************************************************************************)
EntityIdle ==
    /\ now = 0
    /\ nticks = 0
    /\ lifecycle = "init"
    /\ _config = EmptyWeek
    /\ _attr_state = "unset"
    /\ next_event = None
    /\ _unsub_update = None
    /\ timers = EmptyBag
    /\ upd_now = None
    /\ nupdates = 0
    /\ last_edit = NoEdit

InitValidate ==
    /\ schedule \in Schedules
    /\ result = Returned(<<>>)
    /\ calls = 0
    /\ EntityIdle

Validate ==
    /\ calls = 0
    /\ result' = valid_schedule(schedule)
    /\ calls' = 1
    /\ UNCHANGED schedule
    /\ UNCHANGED evars

\* The returned list is validated again.
Revalidate ==
    /\ calls = 1
    /\ result.ok
    /\ schedule' = result.value
    /\ result' = valid_schedule(result.value)
    /\ calls' = 2
    /\ UNCHANGED evars

NextValidate == Validate \/ Revalidate

SpecValidate == InitValidate /\ [][NextValidate]_vars

(***************************************************************************)
(* The entity.                                                             *)
(***************************************************************************)
\* Schedule.__init__: self._config = STORAGE_SCHEMA(config)
Init ==
    /\ \E entries \in EntryLists :
           /\ STORAGE_SCHEMA(week_of(entries)).ok
           /\ _config = STORAGE_SCHEMA(week_of(entries)).value
    /\ now \in 0 .. DaysPerWeek * TicksPerDay - 1
    /\ nticks = 0
    /\ lifecycle = "init"
    /\ _attr_state = "unset"
    /\ next_event = None
    /\ _unsub_update = None
    /\ timers = EmptyBag
    /\ upd_now = None
    /\ nupdates = 0
    /\ last_edit = NoEdit
    /\ schedule = <<>>
    /\ result = Returned(<<>>)
    /\ calls = 0

async_added_to_hass ==
    /\ lifecycle = "init"
    /\ lifecycle' = "added"
    /\ Update(timers)
    /\ UNCHANGED <<now, nticks, nupdates, last_edit, _config>>
    /\ UNCHANGED vvars

\* The timer set by async_track_point_in_utc_time calls _update at its instant.
TimerFires ==
    /\ \E t \in BagToSet(timers) :
           /\ t = now
           /\ Update(timers (-) SetToBag({t}))
    /\ UNCHANGED <<now, nticks, lifecycle, nupdates, last_edit, _config>>
    /\ UNCHANGED vvars

\* The clock advances; a timer that is due fires first.
Tick ==
    /\ lifecycle \in {"added", "removed"}
    /\ nticks < MaxTicks
    /\ \A t \in BagToSet(timers) : t > now
    /\ now' = now + 1
    /\ nticks' = nticks + 1
    /\ UNCHANGED <<lifecycle, nupdates, last_edit, _config, _attr_state,
                   next_event, _unsub_update, timers, upd_now>>
    /\ UNCHANGED vvars

Next == async_added_to_hass \/ TimerFires \/ Tick

Spec == Init /\ [][Next]_vars

(***************************************************************************)
(* The entity with its config edited and with its removal.                 *)
(***************************************************************************)
\* The configs async_update_config is called with: lists of (day, from, to)
\* entries whose ranges can be inverted, of zero length or overlapping.  The
\* edited entity has its ranges on one weekday; the weekday of now is any of
\* the seven, and _update reads weekdays only relative to that of now.
EditDays == {0}
EditEntry == [day : EditDays, from : Times, to : Times]
EditLists == UNION {[1 .. n -> EditEntry] : n \in 0 .. MaxRanges}

\* What STORAGE_SCHEMA makes of a config, with the messages of the
\* vol.Invalid its days raised.
edit_outcome(config) ==
    [ok |-> STORAGE_SCHEMA(config).ok,
     value |-> STORAGE_SCHEMA(config).value,
     errors |-> {SCHEDULE_SCHEMA(config)[day].error :
                     day \in {d \in Days : ~SCHEDULE_SCHEMA(config)[d].ok}}]

EditOutcomes == {edit_outcome(week_of(entries)) : entries \in EditLists}

schema_never_raises(outcome) == FALSE

\* self._config = STORAGE_SCHEMA(config) raises vol.Invalid and the call ends
schema_raises(outcome) == ~outcome.ok

\* Schedule.__init__ with one of the configs that pass the schema
InitEdit ==
    /\ \E outcome \in EditOutcomes :
           /\ outcome.ok
           /\ _config = outcome.value
    /\ now \in 0 .. DaysPerWeek * TicksPerDay - 1
    /\ nticks = 0
    /\ lifecycle = "init"
    /\ nupdates = 0
    /\ last_edit = NoEdit
    /\ _attr_state = "unset"
    /\ next_event = None
    /\ _unsub_update = None
    /\ timers = EmptyBag
    /\ upd_now = None
    /\ schedule = <<>>
    /\ result = Returned(<<>>)
    /\ calls = 0

async_update_config ==
    /\ lifecycle = "added"
    /\ nupdates < MaxUpdates
    /\ nupdates' = nupdates + 1
    /\ \E outcome \in EditOutcomes :
           /\ last_edit' = [ok |-> outcome.ok, errors |-> outcome.errors]
           /\ IF schema_raises(outcome)
              THEN UNCHANGED <<_config, _attr_state, next_event, _unsub_update,
                               timers, upd_now>>
              ELSE LET cleaned == clean_up_listener(timers, _unsub_update)
                   IN  /\ _config' = outcome.value
                       /\ update_on(outcome.value, cleaned.timers,
                                    cleaned.unsub_update)
    /\ UNCHANGED <<now, nticks, lifecycle>>
    /\ UNCHANGED vvars

\* The entity is removed: the hook async_added_to_hass registered with
\* async_on_remove, _clean_up_listener, runs.
on_remove ==
    /\ lifecycle = "added"
    /\ lifecycle' = "removed"
    /\ LET cleaned == clean_up_listener(timers, _unsub_update)
       IN  /\ timers' = cleaned.timers
           /\ _unsub_update' = cleaned.unsub_update
    /\ UNCHANGED <<now, nticks, nupdates, last_edit, _config, _attr_state,
                   next_event, upd_now>>
    /\ UNCHANGED vvars

NextEdit ==
    async_added_to_hass \/ TimerFires \/ Tick \/ async_update_config \/ on_remove

SpecEdit == InitEdit /\ [][NextEdit]_vars

(***************************************************************************)
(* The entity of a week with a range, running for ever.  The program reads *)
(* an instant only through its weekday, its time of day and its distance   *)
(* to other instants, so moving every instant of a state back by a whole   *)
(* week changes nothing it does; the clock is kept below two weeks that    *)
(* way.  With a range in the week every evaluation is less than a week     *)
(* old, so no instant is moved below zero.  The entity is constructed with *)
(* any week of one or two ranges and added at any instant of a week:       *)
(* _update reads _config and now only, so what follows a call of           *)
(* async_update_config at an instant is what follows async_added_to_hass   *)
(* with the new config at that instant.                                    *)
(***************************************************************************)
TicksPerWeek == DaysPerWeek * TicksPerDay

HasRange(config) == \E day \in Days : config[day] # <<>>

\* An instant, or None, a week earlier.
week_earlier(instant) ==
    IF instant = None THEN None ELSE instant - TicksPerWeek

RECURSIVE bag_week_earlier(_)
bag_week_earlier(pending) ==
    IF pending = EmptyBag THEN EmptyBag
    ELSE LET t == CHOOSE x \in BagToSet(pending) : TRUE
         IN  bag_week_earlier(pending (-) SetToBag({t}))
                 (+) SetToBag({week_earlier(t)})

\* The weeks of one range or two: the entries a user wrote, through the
\* schema.
LiveLists ==
    {<<e>> : e \in EditEntry} \cup {<<e, f>> : e \in EditEntry, f \in EditEntry}
LiveWeeks ==
    {STORAGE_SCHEMA(week_of(entries)).value :
         entries \in {l \in LiveLists : STORAGE_SCHEMA(week_of(l)).ok}}

InitLive ==
    /\ _config \in LiveWeeks
    /\ now \in 0 .. TicksPerWeek - 1
    /\ nticks = 0
    /\ lifecycle = "init"
    /\ nupdates = 0
    /\ last_edit = NoEdit
    /\ _attr_state = "unset"
    /\ next_event = None
    /\ _unsub_update = None
    /\ timers = EmptyBag
    /\ upd_now = None
    /\ schedule = <<>>
    /\ result = Returned(<<>>)
    /\ calls = 0

\* The clock advances; a timer that is due fires first.
TickLive ==
    /\ lifecycle = "added"
    /\ \A t \in BagToSet(timers) : t > now
    /\ IF now + 1 < TicksPerWeek + TicksPerWeek
       THEN /\ now' = now + 1
            /\ UNCHANGED <<next_event, _unsub_update, timers, upd_now>>
       ELSE /\ now' = week_earlier(now + 1)
            /\ next_event' = week_earlier(next_event)
            /\ _unsub_update' = week_earlier(_unsub_update)
            /\ timers' = bag_week_earlier(timers)
            /\ upd_now' = week_earlier(upd_now)
    /\ UNCHANGED <<nticks, lifecycle, nupdates, last_edit, _config, _attr_state>>
    /\ UNCHANGED vvars

NextLive == async_added_to_hass \/ TimerFires \/ TickLive

\* Time passes, and the event loop calls a timer's action when its instant
\* has come.
SpecLive ==
    /\ InitLive
    /\ [][NextLive]_vars
    /\ WF_vars(TimerFires)
    /\ WF_vars(TickLive)

(***************************************************************************)
(* Properties of valid_schedule, checked under SpecValidate.               *)
(***************************************************************************)
Positions(s) == 1 .. Len(s)

\* Two time ranges share more than a boundary point.
Intersect(a, b) == a.from < b.to /\ b.from < a.to

\* The orderings of a list.
Orderings(s) ==
    {[i \in Positions(s) |-> s[p[i]]] : p \in Permutations(Positions(s))}

\* C4: valid_schedule fails on every list that holds a time range whose from
\* is not before its to (inverted or zero-length), wherever the range stands
\* in the list and whatever the other ranges are.
C4_InvertedRangeRejected ==
    (calls >= 1 /\ \E i \in Positions(schedule) :
                       schedule[i].from >= schedule[i].to)
        => ~result.ok

\* A zero-length range behind two proper, back-to-back ranges was rejected.
C4_Witness ==
    /\ calls = 1
    /\ Len(schedule) = 3
    /\ schedule[1].from < schedule[1].to
    /\ schedule[2].from < schedule[2].to
    /\ schedule[1].to = schedule[2].from
    /\ schedule[3].from = schedule[3].to
    /\ ~result.ok

\* C5: on a list whose ranges all have from before to, valid_schedule fails
\* with the overlap error exactly when two ranges of the list, neighbours or
\* not, share more than a boundary point; ranges that only touch are accepted.
C5_OverlapIffRejected ==
    (calls >= 1 /\ \A i \in Positions(schedule) :
                       schedule[i].from < schedule[i].to)
        => LET overlap == \E i, j \in Positions(schedule) :
                              i # j /\ Intersect(schedule[i], schedule[j])
           IN  /\ (~result.ok /\ result.error = "Overlapping times") <=> overlap
               /\ ~overlap => result.ok

\* The first and the third range of the list overlap, the second only
\* touches them, and the overlap error was raised.
C5_Witness ==
    /\ calls = 1
    /\ Len(schedule) = 3
    /\ \A i \in Positions(schedule) : schedule[i].from < schedule[i].to
    /\ Intersect(schedule[1], schedule[3])
    /\ ~Intersect(schedule[1], schedule[2])
    /\ ~Intersect(schedule[2], schedule[3])
    /\ ~result.ok
    /\ result.error = "Overlapping times"

\* C6: what valid_schedule returns is a reordering of its argument (the same
\* ranges, none added, removed or changed), ascending by from, every range
\* with from before to and every earlier range ending no later than a later
\* one starts; the empty list is accepted and returned.
C6_CanonicalOutput ==
    /\ (calls >= 1 /\ result.ok) =>
           /\ result.value \in Orderings(schedule)
           /\ \A i, j \in Positions(result.value) :
                  i < j => /\ result.value[i].from <= result.value[j].from
                           /\ result.value[i].to <= result.value[j].from
           /\ \A i \in Positions(result.value) :
                  result.value[i].from < result.value[i].to
    /\ (calls >= 1 /\ schedule = <<>>) => (result.ok /\ result.value = <<>>)

\* Two ranges given later-first were accepted and returned earlier-first.
C6_Witness ==
    /\ calls = 1
    /\ result.ok
    /\ Len(result.value) = 2
    /\ result.value # schedule
    /\ result.value[1].to = result.value[2].from

\* C7: validating a returned list again succeeds and returns that list, in
\* the same order.
C7_Idempotent ==
    calls = 2 => (result.ok /\ result.value = schedule)

\* A returned list of two ranges was validated again.
C7_Witness ==
    /\ calls = 2
    /\ Len(schedule) = 2
    /\ result.ok

\* C8: every ordering of the argument is accepted or rejected like the
\* argument itself, and an accepted ordering returns the same list.
C8_OrderInvariant ==
    calls = 1 =>
        \A other \in Orderings(schedule) :
            /\ valid_schedule(other).ok = result.ok
            /\ result.ok => valid_schedule(other).value = result.value

\* An accepted list of two ranges that has a second, different ordering.
C8_Witness ==
    /\ calls = 1
    /\ Len(schedule) = 2
    /\ schedule[1].from > schedule[2].from
    /\ result.ok

(***************************************************************************)
(* Properties of one evaluation by _update, checked under Spec: upd_now is *)
(* the instant the latest evaluation read, _attr_state and next_event are  *)
(* what it published.                                                      *)
(***************************************************************************)
Evaluated == upd_now # None

Boundaries(day_schedule) ==
    {day_schedule[i].from : i \in Positions(day_schedule)}
        \cup {day_schedule[i].to : i \in Positions(day_schedule)}

Least(S) == CHOOSE x \in S : \A y \in S : x <= y

\* The weekday that lies d days after the day of an instant.
DayAfter(instant, d) == (date_of(instant) + d) % DaysPerWeek

\* Every boundary of the day of the instant and of the seven days after it,
\* as an instant.
Candidates(config, instant) ==
    UNION {{(date_of(instant) + d) * TicksPerDay + b :
                b \in Boundaries(config[DayAfter(instant, d)])} :
           d \in 0 .. DaysPerWeek}

Covered(config, instant) ==
    \E i \in Positions(config[DayAfter(instant, 0)]) :
        /\ config[DayAfter(instant, 0)][i].from <= instant % TicksPerDay
        /\ instant % TicksPerDay <= config[DayAfter(instant, 0)][i].to

\* C1: the evaluation reports on exactly when a range of the weekday of now
\* holds the time of day of now, both ends included; the ranges of the other
\* weekdays play no part.
C1_ActiveIffInRange ==
    Evaluated =>
        /\ _attr_state \in {STATE_ON, STATE_OFF}
        /\ _attr_state = STATE_ON <=> Covered(_config, upd_now)

\* An evaluation exactly at the end of a range, with ranges on another
\* weekday as well, reported on.
C1_Witness ==
    /\ Evaluated
    /\ \E i \in Positions(_config[DayAfter(upd_now, 0)]) :
           _config[DayAfter(upd_now, 0)][i].to = upd_now % TicksPerDay
    /\ \E day \in Days : day # DayAfter(upd_now, 0) /\ _config[day] # <<>>
    /\ _attr_state = STATE_ON

\* C2: the next event is the earliest boundary instant strictly later than
\* now among the boundaries of today and of the seven days after it; when
\* today has no boundary later than now it is the smallest boundary of the
\* first day after today that has a range, on that day's date.
C2_EarliestLaterBoundary ==
    Evaluated =>
        LET later == {c \in Candidates(_config, upd_now) : c > upd_now}
            today == {b \in Boundaries(_config[DayAfter(upd_now, 0)]) :
                          b > upd_now % TicksPerDay}
            busy == {d \in 1 .. DaysPerWeek :
                         _config[DayAfter(upd_now, d)] # <<>>}
        IN  /\ next_event # upd_now
            /\ IF later = {} THEN next_event = None
               ELSE next_event = Least(later)
            /\ (today = {} /\ busy # {}) =>
                   next_event =
                       (date_of(upd_now) + Least(busy)) * TicksPerDay
                           + Least(Boundaries(_config[DayAfter(upd_now, Least(busy))]))

\* An evaluation exactly at the last boundary of today found the next event
\* two or more days later.
C2_Witness ==
    /\ Evaluated
    /\ upd_now % TicksPerDay \in Boundaries(_config[DayAfter(upd_now, 0)])
    /\ \A b \in Boundaries(_config[DayAfter(upd_now, 0)]) :
           b <= upd_now % TicksPerDay
    /\ next_event # None
    /\ date_of(next_event) >= date_of(upd_now) + 2
    /\ date_of(next_event) < date_of(upd_now) + DaysPerWeek

\* C3: the next event is None exactly when all seven days are empty, and the
\* state is then off.
C3_NoneIffEmptyWeek ==
    Evaluated =>
        /\ next_event = None <=> (\A day \in Days : _config[day] = <<>>)
        /\ next_event = None => _attr_state = STATE_OFF

\* A week with ranges on the weekday of now only, all of them over at now:
\* the search still found a next event.
C3_Witness ==
    /\ Evaluated
    /\ _config[DayAfter(upd_now, 0)] # <<>>
    /\ \A day \in Days : day # DayAfter(upd_now, 0) => _config[day] = <<>>
    /\ \A b \in Boundaries(_config[DayAfter(upd_now, 0)]) :
           b < upd_now % TicksPerDay
    /\ next_event # None

\* An evaluation of the empty week published no next event.
C3_EmptyWeekReached ==
    /\ Evaluated
    /\ \A day \in Days : _config[day] = <<>>
    /\ next_event = None

\* C9: for a week with a range, the next event lies after now and at most
\* seven days after now, and it lies on the same weekday of next week only
\* when today's boundaries are all at or before now's time of day and the six
\* other weekdays are empty.
C9_WithinSevenDays ==
    (Evaluated /\ \E day \in Days : _config[day] # <<>>) =>
        /\ next_event # None
        /\ upd_now < next_event
        /\ next_event <= upd_now + DaysPerWeek * TicksPerDay
        /\ date_of(next_event) = date_of(upd_now) + DaysPerWeek =>
               /\ \A b \in Boundaries(_config[DayAfter(upd_now, 0)]) :
                      b <= upd_now % TicksPerDay
               /\ \A day \in Days :
                      day # DayAfter(upd_now, 0) => _config[day] = <<>>

\* The next event was found at day offset 7, on the date of next week's
\* same weekday, by an evaluation exactly at today's last boundary.
C9_Witness ==
    /\ Evaluated
    /\ next_event # None
    /\ date_of(next_event) = date_of(upd_now) + DaysPerWeek
    /\ upd_now % TicksPerDay \in Boundaries(_config[DayAfter(upd_now, 0)])

\* The instant is the end of one range and the start of another range of
\* its day.
SharedBoundary(config, instant) ==
    \E i, j \in Positions(config[DayAfter(instant, 0)]) :
        /\ config[DayAfter(instant, 0)][i].to = instant % TicksPerDay
        /\ config[DayAfter(instant, 0)][j].from = instant % TicksPerDay

\* C10 as stated: at every next event the schedule's activity just before it
\* differs from its activity just after it.
C10_EveryNextEventChangesState ==
    (Evaluated /\ next_event # None) =>
        Covered(_config, next_event - 1) # Covered(_config, next_event + 1)

\* C10 as amended: every next event is a boundary of a range of its own
\* weekday; the activity just before it differs from the activity just after
\* it unless it is the boundary two back-to-back ranges share, where the
\* schedule is active on both sides.
C10_NextEventIsBoundary ==
    (Evaluated /\ next_event # None) =>
        /\ next_event % TicksPerDay
               \in Boundaries(_config[DayAfter(next_event, 0)])
        /\ IF SharedBoundary(_config, next_event)
           THEN /\ Covered(_config, next_event - 1)
                /\ Covered(_config, next_event + 1)
           ELSE Covered(_config, next_event - 1)
                    # Covered(_config, next_event + 1)

\* The next event is the end of a range that ends at the last configured
\* time of its day, and the next day starts with a range.
C10_Witness ==
    /\ Evaluated
    /\ next_event # None
    /\ next_event % TicksPerDay = 2 * (MaxTime - 1)
    /\ \E i \in Positions(_config[DayAfter(next_event, 1)]) :
           _config[DayAfter(next_event, 1)][i].from = 0
    /\ Covered(_config, next_event - 1)
    /\ ~Covered(_config, next_event + 1)

\* The next event is the boundary two back-to-back ranges share.
C10_SharedBoundaryReached ==
    /\ Evaluated
    /\ next_event # None
    /\ SharedBoundary(_config, next_event)

(***************************************************************************)
(* Properties of the edited and removed entity, checked under SpecEdit.    *)
(***************************************************************************)
\* The step is a call of async_update_config.
UpdateCall == nupdates' = nupdates + 1

\* The earliest boundary instant after an instant, or None.
NextBoundary(config, instant) ==
    LET later == {c \in Candidates(config, instant) : c > instant}
    IN  IF later = {} THEN None ELSE Least(later)

\* C11: a call of async_update_config with a config that fails validation
\* (an inverted, zero-length or overlapping range) leaves the stored config,
\* the state, the next_event attribute and the pending timer as they were.
C11_RejectedEditChangesNothing ==
    [][(UpdateCall /\ ~last_edit'.ok)
           => UNCHANGED <<_config, _attr_state, next_event, _unsub_update,
                          timers, upd_now>>]_vars

\* A config with overlapping ranges was rejected while the entity was on
\* with a timer pending.
C11_Witness ==
    /\ nupdates >= 1
    /\ ~last_edit.ok
    /\ "Overlapping times" \in last_edit.errors
    /\ _attr_state = STATE_ON
    /\ BagCardinality(timers) = 1
    /\ _config[0] # <<>>

\* C14: while the entity is added, at most one timer is pending; one is
\* pending exactly when next_event is not None, and then at next_event;
\* _unsub_update is not None exactly when a timer is pending, and it is the
\* handle of that timer.
C14_OneTimerAtNextEvent ==
    (lifecycle = "added") =>
        /\ BagCardinality(timers) <= 1
        /\ timers # EmptyBag <=> next_event # None
        /\ \A t \in BagToSet(timers) : t = next_event
        /\ _unsub_update # None <=> timers # EmptyBag
        /\ _unsub_update # None => BagIn(_unsub_update, timers)

\* After an edit to a week without ranges no timer is pending and
\* _unsub_update is None.
C14_Witness ==
    /\ lifecycle = "added"
    /\ nupdates >= 1
    /\ last_edit.ok
    /\ \A day \in Days : _config[day] = <<>>
    /\ timers = EmptyBag
    /\ _unsub_update = None
    /\ nticks > 0

\* C15: a successful call of async_update_config leaves the state and
\* next_event of the new config evaluated at the time of the call and, as the
\* only pending timer, the one at that next_event; every pending timer of an
\* added entity is at a boundary of the stored config.
C15_EditReplacesTimer ==
    /\ [][(UpdateCall /\ last_edit'.ok) =>
              /\ upd_now' = now
              /\ _attr_state' = STATE_ON <=> Covered(_config', now)
              /\ _attr_state' \in {STATE_ON, STATE_OFF}
              /\ next_event' = NextBoundary(_config', now)
              /\ timers' = IF next_event' = None THEN EmptyBag
                           ELSE SetToBag({next_event'})]_vars
    /\ [](lifecycle = "added" =>
              \A t \in BagToSet(timers) :
                  t % TicksPerDay \in Boundaries(_config[DayAfter(t, 0)]))

\* A successful edit made after the clock had advanced, with a next event.
C15_Witness ==
    /\ nupdates >= 1
    /\ last_edit.ok
    /\ upd_now = now
    /\ nticks > 0
    /\ next_event # None
    /\ timers = SetToBag({next_event})

\* C17: once the on-remove hook has run no timer is pending, and no later
\* step evaluates the schedule or writes the state.
C17_NothingAfterRemoval ==
    /\ [](lifecycle = "removed" => timers = EmptyBag)
    /\ [][lifecycle = "removed"
              => UNCHANGED <<_attr_state, next_event, upd_now, timers>>]_vars

\* The entity was removed with a timer pending and the clock has reached
\* the instant of that timer.
C17_Witness ==
    /\ lifecycle = "removed"
    /\ next_event # None
    /\ now >= next_event
    /\ upd_now < next_event

(***************************************************************************)
(* The published state between evaluations, checked under Spec, where the  *)
(* schedule is evaluated when the entity is added and exactly at every     *)
(* next event, and at no other time.                                       *)
(***************************************************************************)
\* No evaluation is due at the instant now.
NoTimerDue == \A t \in BagToSet(timers) : t > now

\* C12: at every instant from an evaluation up to the next evaluation, that
\* one excluded, the published state is on exactly when the instant lies in
\* a range of the schedule.
C12_StateCorrectUntilNextEvaluation ==
    (lifecycle = "added" /\ Evaluated /\ NoTimerDue) =>
        (_attr_state = STATE_ON <=> Covered(_config, now))

\* C12 for an evaluation made by a timer: once the end of a range has passed
\* and no range follows it directly, the entity reports off.
C12_OffAfterEndOfRange ==
    (lifecycle = "added" /\ Evaluated /\ NoTimerDue
         /\ upd_now > now - nticks /\ ~Covered(_config, now))
        => _attr_state = STATE_OFF

(***************************************************************************)
(* The message of a rejection, checked under SpecValidate.                 *)
(***************************************************************************)
\* C13: every ordering of a rejected list is rejected with the same message
\* as the list itself.
C13_SameErrorInEveryOrder ==
    (calls = 1 /\ ~result.ok) =>
        \A other \in Orderings(schedule) :
            valid_schedule(other).error = result.error

(***************************************************************************)
(* The entity running for ever, checked under SpecLive.                    *)
(***************************************************************************)
\* A range of the weekday of now starts at now.
RangeStartsNow ==
    /\ lifecycle = "added"
    /\ \E i \in Positions(_config[DayAfter(now, 0)]) :
           _config[DayAfter(now, 0)][i].from = now % TicksPerDay

====
